---- MODULE Spec2Model ----
(***************************************************************************)
(* Model of MilPy's flight simulator (milpy/travel/flight_simulator.py):   *)
(* the flight/camera path planner (_FlightParameters), the dateline        *)
(* correction, the sub-solar longitude normalisation, the day/night        *)
(* terminator map (_DayNightMapCreator) and the animation's frames; and of *)
(* the angle kernel milpy.math.haversine and of the shell escaping of      *)
(* milpy.miscellaneous._EscapedString.                                     *)
(*                                                                         *)
(* Numbers.  The code computes with floats; the model computes with exact  *)
(* integers in fixed units:                                                *)
(*   - angles of the planner: 1/1980 degree (Deg(d) is d degrees), so     *)
(*     that the model's interpolations divide exactly;                     *)
(*   - instants and durations: whole seconds;                              *)
(*   - solar zenith angles and the sub-solar longitude: whole degrees;     *)
(*   - mask weights: 1/10000 (cos^2 tabulated at the 5-degree steps that   *)
(*     whole-degree zenith angles produce);                                *)
(*   - texture samples: k/255, as convert_to_float_image makes them;       *)
(*   - angles of haversine: whole degrees (the code takes radians and       *)
(*     returns degrees); its sines and cosines are tabulated in 1/10000,    *)
(*     rounded down, and the angle returned is rounded up to the whole      *)
(*     degree;                                                              *)
(*   - strings: sequences of one-character strings.                        *)
(***************************************************************************)
EXTENDS Integers, Sequences, FiniteSets, TLC

VARIABLES
    \* _FlightParameters (one flight plan and its construction)
    pc,                 \* position in _FlightParameters.__init__
    departure_airport,  \* <<longitude, latitude>> of the departure airport
    arrival_airport,    \* <<longitude, latitude>> of the arrival airport
    departure_time,     \* departure instant, seconds
    arrival_time,       \* arrival instant, seconds
    n_frames,           \* self.n_frames
    flight_path,        \* self.flight_path: sequence of <<longitude, latitude>>
    camera_path,        \* self.camera_path: sequence of <<longitude, latitude>>
    raised,             \* name of the exception __init__ raised, "" if none
    \* Flight.animate and the frame _func_animate drew last
    frames_drawn,       \* how many frames FuncAnimation has asked for
    iterator,           \* _func_animate's first argument
    frame_time,         \* the instant given to _calculate_subsolar_position
    projection,         \* <<central_longitude, central_latitude>>
    trail,              \* the points given to ax.plot (the red line)
    marker,             \* the point given to ax.scatter (the plane)
    \* one call of dateline_fix on a caller's array
    dl_pc,              \* "idle", "call" (before the call), "done" or
                        \* "twice" (dateline_fix applied to its result)
    dl_input,           \* the values the caller's array held at the call
    coordinates,        \* the caller's array (dateline_fix writes through it)
    dl_result,          \* the array dateline_fix returned
    dl_again,           \* the array dateline_fix returned for dl_result
    \* one call of _calculate_subsolar_position
    sun_pc,             \* "idle", "call" or "done"
    sun_ra,             \* sun.ra, whole degrees in [0, 360)
    sidereal_time,      \* greenwich.sidereal_time(), whole degrees in [0, 360)
    sun_dec,            \* sun.dec, whole degrees
    sun_lon,            \* the longitude returned
    sun_lat,            \* the latitude returned
    \* one _DayNightMapCreator and its map() call
    map_pc,             \* "idle", "args" (before __init__), "new", "sza" (grid
                        \* made), "masked", "mapped" or "error" (map() raised)
    sub_solar_latitude, \* self.sub_solar_latitude, whole degrees
    sub_solar_longitude,\* self.sub_solar_longitude, whole degrees
    map_raised,         \* name of the exception raised, "" if none
    sza_input,          \* the solar zenith angles handed to terminator_mask
    sza_arr,            \* the caller's array (terminator_mask works in place)
    twilight_mask,      \* the mask returned, [row][column][channel], 1/10000
    day_map,            \* self.day_map, [row][column][channel], samples k of k/255
    night_map,          \* self.night_map, same layout
    map_result,         \* what map() returns, in units of 1/(255 * 10000)
    \* one call of milpy.math.haversine on two points
    haversine_pc,       \* "idle", "call", "done" (returned) or "error" (raised)
    hv_lat0,            \* lat0: starting latitude, whole degrees
    hv_lon0,            \* lon0: starting longitude, whole degrees
    hv_lat1,            \* lat1: ending latitude, whole degrees
    hv_lon1,            \* lon1: ending longitude, whole degrees
    angle,              \* the value returned, whole degrees (NaN if not a number)
    haversine_raised,   \* name of the exception raised, "" if none
    \* one _EscapedString(content) (milpy/miscellaneous.py)
    escape_pc,          \* "idle", "call" or "done"
    content,            \* the argument: a sequence of one-character strings
    escaped,            \* the characters of the string object made
    original,           \* its _original field, what .original returns
    \* one MP4, MKV or ISO object (milpy/video/processing.py) and the files
    video_pc,           \* "idle", "call" (before __init__), "constructed",
                        \* "moved", "ran" (inside tag) or "error"
    video_class,        \* "MP4", "MKV" or "ISO"
    argument,           \* the file_path argument of __init__
    files,              \* the paths at which a video file exists
    directories,        \* the directories that exist
    file_path,          \* self.file_path
    terminal_file_path, \* self.terminal_file_path
    converter_options,  \* self.converter_options
    temporary_filepath, \* tag's temporary_filepath (.original)
    commands,           \* the conversion commands given to os.system
    video_raised,       \* name of the exception raised last, "" if none
    \* one row of a _Spreadsheet (milpy/video/_subler.py)
    sheet_pc,           \* "idle" or "row"
    metadata,           \* the row: column name -> cell (Blank if empty)
    subler_dictionary,  \* what make_subler_dictionary returned
    handbrake_dictionary, \* what make_handbrake_dictionary returned
    sheet_raised        \* name of the exception raised last, "" if none

animation_vars == <<frames_drawn, iterator, frame_time, projection, trail,
                    marker>>
flight_vars == <<pc, departure_airport, arrival_airport, departure_time,
                 arrival_time, n_frames, flight_path, camera_path, raised,
                 animation_vars>>
dateline_vars == <<dl_pc, dl_input, coordinates, dl_result, dl_again>>
sun_vars == <<sun_pc, sun_ra, sidereal_time, sun_dec, sun_lon, sun_lat>>
map_vars == <<map_pc, sub_solar_latitude, sub_solar_longitude, map_raised,
              sza_input, sza_arr, twilight_mask, day_map, night_map,
              map_result>>
haversine_vars == <<haversine_pc, hv_lat0, hv_lon0, hv_lat1, hv_lon1, angle,
                    haversine_raised>>
escape_vars == <<escape_pc, content, escaped, original>>
video_vars == <<video_pc, video_class, argument, files, directories,
                file_path, terminal_file_path, converter_options,
                temporary_filepath, commands, video_raised>>
sheet_vars == <<sheet_pc, metadata, subler_dictionary, handbrake_dictionary,
                sheet_raised>>
vars == <<flight_vars, dateline_vars, sun_vars, map_vars, haversine_vars,
          escape_vars, video_vars, sheet_vars>>

(***************************************************************************)
(* Bounds of the model.                                                    *)
(***************************************************************************)
\* longest flight enumerated minute by minute (plus the 196-minute example)
MaxMinutes == 3
\* longest coordinate sequence handed to dateline_fix on its own
MaxLen == 3
\* longest string handed to _EscapedString
MaxContent == 3
\* most pieces (a separator, a dot, a word) a file path is made of
MaxPieces == 4
\* most conversions run on one video object
MaxCommands == 3
\* rows (latitudes) and columns (longitudes) of the model's map grid; the
\* code's grid is 1800 x 3600
Rows == 2
Cols == 2

(***************************************************************************)
(* Arithmetic helpers.                                                     *)
(***************************************************************************)
\* d degrees in the planner's unit (1/1980 degree: 1980 is a multiple of
\* 2..6 and of 198, the divisors the model's interpolations use)
Deg(d) == 1980 * d

Abs(x) == IF x < 0 THEN -x ELSE x

\* Python's int(a / b) for b > 0: truncation toward zero
IntTrunc(a, b) == IF a >= 0 THEN a \div b ELSE -((-a) \div b)

\* a longitude brought into (-180, 180] degrees, as the geodesic library returns it
WrapLon(x) ==
    LET m == x % Deg(360)
    IN  IF m > Deg(180) THEN m - Deg(360) ELSE m

Lon(p) == p[1]
Lat(p) == p[2]

(***************************************************************************)
(* _FlightParameters                                                       *)
(***************************************************************************)
\* self.n_frames = int(self.duration.total_seconds() / 60) + 1
NFramesNoPlusOne(dep, arr) == IntTrunc(arr - dep, 60)
NFrames(dep, arr) == IntTrunc(arr - dep, 60) + 1

\* Geod.npts(lon1, lat1, lon2, lat2, npts): npts equally spaced INTERMEDIATE
\* points of the geodesic, the two end points excluded (point i of n lies at
\* the fraction i / (n + 1) of the way).  The model's routes run along the
\* equator or along a meridian, where equal steps of arc are equal steps of
\* longitude or latitude; longitudes go the short way round and come back
\* wrapped into (-180, 180].  Between opposite meridians the geodesic runs
\* over the nearer pole: up the first meridian and down the second.
npts_over_pole(lon1, lat1, lon2, lat2, n) ==
    LET north == lat1 + lat2 >= 0
        up    == IF north THEN Deg(90) - lat1 ELSE Deg(90) + lat1
        total == up + (IF north THEN Deg(90) - lat2 ELSE Deg(90) + lat2)
    IN  [i \in 1..n |->
            LET s == (i * total) \div (n + 1)
            IN  IF s <= up
                   THEN << lon1, IF north THEN lat1 + s ELSE lat1 - s >>
                   ELSE << lon2, IF north THEN Deg(180) - lat1 - s
                                          ELSE s - Deg(180) - lat1 >>]
npts(lon1, lat1, lon2, lat2, n) ==
    IF n <= 0 THEN << >>
    ELSE IF Abs(WrapLon(lon2 - lon1)) = Deg(180)
    THEN npts_over_pole(lon1, lat1, lon2, lat2, n)
    ELSE [i \in 1..n |->
            << WrapLon(lon1 + (i * WrapLon(lon2 - lon1)) \div (n + 1)),
               lat1 + (i * (lat2 - lat1)) \div (n + 1) >>]

\* the test of dateline_fix: some longitude < -175 or > 175
NearDateline(coords) ==
    \E i \in 1..Len(coords) :
        Lon(coords[i]) < Deg(-175) \/ Lon(coords[i]) > Deg(175)

\* dateline_fix(coordinates): the array it returns
dateline_fix_always(coords) ==
    [i \in 1..Len(coords) |->
        << IF Lon(coords[i]) < 0 THEN Lon(coords[i]) + Deg(360) ELSE Lon(coords[i]),
           Lat(coords[i]) >>]
dateline_fix_shift_all(coords) ==
    [i \in 1..Len(coords) |->
        << IF NearDateline(coords) THEN Lon(coords[i]) + Deg(360) ELSE Lon(coords[i]),
           Lat(coords[i]) >>]
dateline_fix(coords) ==
    [i \in 1..Len(coords) |->
        << IF NearDateline(coords) /\ Lon(coords[i]) < 0
              THEN Lon(coords[i]) + Deg(360)
              ELSE Lon(coords[i]),
           Lat(coords[i]) >>]

\* what dateline_fix leaves in the caller's array: `longitude` is a view of
\* column 0, so `longitude[...] += 360` writes through; column 1 is only read
dateline_fix_argument(coords) ==
    [i \in 1..Len(coords) |->
        << IF NearDateline(coords) /\ Lon(coords[i]) < 0
              THEN Lon(coords[i]) + Deg(360)
              ELSE Lon(coords[i]),
           Lat(coords[i]) >>]

\* np.linspace(start, stop, num): num samples, the last one set to stop
linspace_no_endpoint(start, stop, num) ==
    IF num <= 0 THEN << >>
    ELSE [i \in 1..num |-> start + ((i - 1) * (stop - start)) \div num]
linspace(start, stop, num) ==
    IF num <= 0 THEN << >>
    ELSE IF num = 1 THEN << start >>
    ELSE [i \in 1..num |->
            IF i = num THEN stop
            ELSE start + ((i - 1) * (stop - start)) \div (num - 1)]

\* calculate_flight_path: the array before dateline_fix
flight_path_raw(dep, arr, n) ==
    npts(Lon(dep), Lat(dep), Lon(arr), Lat(arr), n)

\* calculate_camera_path: np.array([lons, lats]).T, a fresh array built from
\* the copied longitudes and the re-interpolated latitudes
camera_path_raw(path, n) ==
    LET lats == linspace(Lat(path[1]), Lat(path[Len(path)]), n)
    IN  [i \in 1..n |-> << Lon(path[i]), lats[i] >>]

\* the airports of the model: <<longitude, latitude>> in whole degrees
Airports ==
    { <<Deg(0), Deg(0)>>, <<Deg(30), Deg(0)>>, <<Deg(30), Deg(60)>>,
      <<Deg(170), Deg(0)>>, <<Deg(-170), Deg(0)>>, <<Deg(-120), Deg(0)>>,
      <<Deg(-178), Deg(10)>>, <<Deg(-178), Deg(40)>>,
      <<Deg(178), Deg(-20)>>, <<Deg(178), Deg(20)>>,
      <<Deg(-150), Deg(11)>> }

\* routes along the equator (less than half way round), along a meridian, or
\* over the north pole between opposite meridians.  The airports are placed
\* so that every interpolation of the model divides exactly (the polar
\* route's latitudes differ by 49 degrees: 196 divides Deg(49)).
Routes ==
    { r \in Airports \X Airports :
        \/ Lat(r[1]) = 0 /\ Lat(r[2]) = 0
              /\ Abs(WrapLon(Lon(r[2]) - Lon(r[1]))) < Deg(179)
        \/ Lon(r[1]) = Lon(r[2])
        \/ Abs(WrapLon(Lon(r[2]) - Lon(r[1]))) = Deg(180)
              /\ Lat(r[1]) > 0 /\ Lat(r[2]) > 0 }

DepartureTimes == {0, 90}
\* arrival - departure, in seconds; 196 minutes is the docstring's example
Durations == ((-60 * MaxMinutes - 59)..(60 * MaxMinutes + 59)) \cup {196 * 60}

AnimationIdle ==
    /\ frames_drawn = 0
    /\ iterator = 0
    /\ frame_time = 0
    /\ projection = << >>
    /\ trail = << >>
    /\ marker = << >>

FlightIdle ==
    /\ pc = "idle"
    /\ raised = ""
    /\ AnimationIdle
    /\ departure_airport = <<0, 0>>
    /\ arrival_airport = <<0, 0>>
    /\ departure_time = 0
    /\ arrival_time = 0
    /\ n_frames = 0
    /\ flight_path = << >>
    /\ camera_path = << >>

DatelineIdle ==
    /\ dl_pc = "idle"
    /\ dl_input = << >>
    /\ coordinates = << >>
    /\ dl_result = << >>
    /\ dl_again = << >>

SunIdle ==
    /\ sun_pc = "idle"
    /\ sun_ra = 0
    /\ sidereal_time = 0
    /\ sun_dec = 0
    /\ sun_lon = 0
    /\ sun_lat = 0

MapIdle ==
    /\ map_pc = "idle"
    /\ sub_solar_latitude = 0
    /\ sub_solar_longitude = 0
    /\ map_raised = ""
    /\ sza_input = << >>
    /\ sza_arr = << >>
    /\ twilight_mask = << >>
    /\ day_map = << >>
    /\ night_map = << >>
    /\ map_result = << >>

HaversineIdle ==
    /\ haversine_pc = "idle"
    /\ hv_lat0 = 0
    /\ hv_lon0 = 0
    /\ hv_lat1 = 0
    /\ hv_lon1 = 0
    /\ angle = 0
    /\ haversine_raised = ""

EscapeIdle ==
    /\ escape_pc = "idle"
    /\ content = << >>
    /\ escaped = << >>
    /\ original = << >>

\* no converter options: the attribute is not set
NoOptions ==
    [ source      |-> [input |-> << >>, title |-> ""],
      destination |-> [output |-> << >>, format |-> ""],
      video       |-> [encoder |-> "", speed |-> "", quality |-> "",
                       two_pass |-> FALSE] ]

VideoIdle ==
    /\ video_pc = "idle"
    /\ video_class = ""
    /\ argument = << >>
    /\ files = {}
    /\ directories = {}
    /\ file_path = << >>
    /\ terminal_file_path = << >>
    /\ converter_options = NoOptions
    /\ temporary_filepath = << >>
    /\ commands = << >>
    /\ video_raised = ""

\* an empty cell (NaN in the data frame)
Blank == << >>

SheetIdle ==
    /\ sheet_pc = "idle"
    /\ metadata = << >>
    /\ subler_dictionary = << >>
    /\ handbrake_dictionary = << >>
    /\ sheet_raised = ""

\* the arguments of _FlightParameters(...), before the constructor runs
Init ==
    /\ pc = "new"
    /\ \E r \in Routes : departure_airport = r[1] /\ arrival_airport = r[2]
    /\ departure_time \in DepartureTimes
    /\ \E d \in Durations : arrival_time = departure_time + d
    /\ n_frames = 0
    /\ flight_path = << >>
    /\ camera_path = << >>
    /\ raised = ""
    /\ AnimationIdle
    /\ DatelineIdle
    /\ SunIdle
    /\ MapIdle
    /\ HaversineIdle
    /\ EscapeIdle
    /\ VideoIdle
    /\ SheetIdle

\* __init__, lines 328-333: the fields, duration and n_frames
SetFrameCount ==
    /\ pc = "new"
    /\ n_frames' = NFrames(departure_time, arrival_time)
    /\ pc' = "counted"
    /\ UNCHANGED <<departure_airport, arrival_airport, departure_time,
                   arrival_time, flight_path, camera_path, raised>>
    /\ UNCHANGED <<animation_vars, dateline_vars, sun_vars, map_vars,
                   haversine_vars, escape_vars,
                   video_vars, sheet_vars>>

\* __init__, line 334: self.flight_path = self.calculate_flight_path().
\* With n_frames <= 0 npts returns no points, np.array([]) is one-dimensional
\* and dateline_fix's coordinates[:, 0] raises IndexError: no plan is built.
CalculateFlightPath ==
    /\ pc = "counted"
    /\ IF n_frames <= 0
          THEN /\ pc' = "error"
               /\ raised' = "IndexError"
               /\ UNCHANGED flight_path
          ELSE /\ flight_path' =
                     dateline_fix(flight_path_raw(departure_airport,
                                                  arrival_airport, n_frames))
               /\ pc' = "flown"
               /\ UNCHANGED raised
    /\ UNCHANGED <<departure_airport, arrival_airport, departure_time,
                   arrival_time, n_frames, camera_path>>
    /\ UNCHANGED <<animation_vars, dateline_vars, sun_vars, map_vars,
                   haversine_vars, escape_vars,
                   video_vars, sheet_vars>>

\* what calculate_camera_path leaves in self.flight_path: line 375 works on
\* self.flight_path.copy() and line 379 hands dateline_fix the fresh array
\* np.array([lons, lats]).T, so nothing is written through to flight_path
flight_path_after_camera_path_in_place(path, n) ==
    dateline_fix(camera_path_raw(path, n))
flight_path_after_camera_path(path, n) == path

\* __init__, line 335: self.camera_path = self.calculate_camera_path()
CalculateCameraPath ==
    /\ pc = "flown"
    /\ camera_path' = dateline_fix(camera_path_raw(flight_path, n_frames))
    /\ flight_path' = flight_path_after_camera_path(flight_path, n_frames)
    /\ pc' = "constructed"
    /\ UNCHANGED <<departure_airport, arrival_airport, departure_time,
                   arrival_time, n_frames, raised>>
    /\ UNCHANGED <<animation_vars, dateline_vars, sun_vars, map_vars,
                   haversine_vars, escape_vars,
                   video_vars, sheet_vars>>

\* FuncAnimation(fig, self._func_animate, frames=n_frames): an integer
\* `frames` stands for range(frames)
range(n) == 0..(n - 1)

\* departure_time + timedelta(minutes=iterator), in seconds
frame_instant(dep, i) == dep + 60 * i

\* path[:iterator] for 0 <= iterator: the first `iterator` rows
path_slice_inclusive(path, i) ==
    SubSeq(path, 1, IF i + 1 < Len(path) THEN i + 1 ELSE Len(path))
path_slice(path, i) ==
    SubSeq(path, 1, IF i < Len(path) THEN i ELSE Len(path))

\* path[iterator] for 0 <= iterator; << >> stands for the IndexError of an
\* index past the end
path_row(path, i) ==
    IF i + 1 \in DOMAIN path THEN path[i + 1] ELSE << >>

\* Flight.animate, lines 590-601: the figure and the FuncAnimation
Animate ==
    /\ pc = "constructed"
    /\ pc' = "animating"
    /\ frames_drawn' = 0
    /\ UNCHANGED <<departure_airport, arrival_airport, departure_time,
                   arrival_time, n_frames, flight_path, camera_path, raised>>
    /\ UNCHANGED <<iterator, frame_time, projection, trail, marker>>
    /\ UNCHANGED <<dateline_vars, sun_vars, map_vars, haversine_vars, escape_vars,
                   video_vars, sheet_vars>>

\* one call _func_animate(iterator, t0, highres): ani.save asks for the
\* frames of range(n_frames) in order (the initial draw, which repeats
\* frame 0, is left out)
FuncAnimate ==
    /\ pc = "animating"
    /\ frames_drawn \in range(n_frames)
    /\ iterator' = frames_drawn
    /\ projection' = path_row(camera_path, iterator')
    /\ frame_time' = frame_instant(departure_time, iterator')
    /\ trail' = path_slice(flight_path, iterator')
    /\ marker' = path_row(flight_path, iterator')
    /\ frames_drawn' = frames_drawn + 1
    /\ UNCHANGED <<pc, departure_airport, arrival_airport, departure_time,
                   arrival_time, n_frames, flight_path, camera_path, raised>>
    /\ UNCHANGED <<dateline_vars, sun_vars, map_vars, haversine_vars, escape_vars,
                   video_vars, sheet_vars>>

\* Flight.animate, line 610: ani.save returns after the last frame
Save ==
    /\ pc = "animating"
    /\ frames_drawn \notin range(n_frames)
    /\ pc' = "saved"
    /\ UNCHANGED <<departure_airport, arrival_airport, departure_time,
                   arrival_time, n_frames, flight_path, camera_path, raised>>
    /\ UNCHANGED <<animation_vars, dateline_vars, sun_vars, map_vars,
                   haversine_vars, escape_vars,
                   video_vars, sheet_vars>>

Next ==
    \/ SetFrameCount
    \/ CalculateFlightPath
    \/ CalculateCameraPath
    \/ Animate
    \/ FuncAnimate
    \/ Save

Spec == Init /\ [][Next]_vars

(***************************************************************************)
(* dateline_fix on its own: one call on a caller's coordinate array.       *)
(***************************************************************************)
DatelineLongitudes ==
    { Deg(-179), Deg(-176), Deg(-175), Deg(-1), Deg(0), Deg(1),
      Deg(175), Deg(176), Deg(180) }
DatelineLatitudes == { Deg(-10), Deg(20) }
DatelinePoints == DatelineLongitudes \X DatelineLatitudes

CoordinateArrays ==
    UNION { [1..n -> DatelinePoints] : n \in 1..MaxLen }

InitDateline ==
    /\ FlightIdle
    /\ SunIdle
    /\ MapIdle
    /\ HaversineIdle
    /\ EscapeIdle
    /\ VideoIdle
    /\ SheetIdle
    /\ dl_pc = "call"
    /\ dl_input \in CoordinateArrays
    /\ coordinates = dl_input
    /\ dl_result = << >>
    /\ dl_again = << >>

\* result = dateline_fix(coordinates)
DatelineFix ==
    /\ dl_pc = "call"
    /\ dl_result' = dateline_fix(coordinates)
    /\ coordinates' = dateline_fix_argument(coordinates)
    /\ dl_pc' = "done"
    /\ UNCHANGED <<dl_input, dl_again>>
    /\ UNCHANGED <<flight_vars, sun_vars, map_vars, haversine_vars, escape_vars,
                   video_vars, sheet_vars>>

\* dateline_fix(result): the second application, as line 379 makes it on
\* the longitudes line 361 has corrected; the array it is given is written
\* through like any other
DatelineFixAgain ==
    /\ dl_pc = "done"
    /\ dl_again' = dateline_fix(dl_result)
    /\ dl_result' = dateline_fix_argument(dl_result)
    /\ dl_pc' = "twice"
    /\ UNCHANGED <<dl_input, coordinates>>
    /\ UNCHANGED <<flight_vars, sun_vars, map_vars, haversine_vars, escape_vars,
                   video_vars, sheet_vars>>

NextDateline ==
    \/ DatelineFix
    \/ DatelineFixAgain

SpecDateline == InitDateline /\ [][NextDateline]_vars

(***************************************************************************)
(* _calculate_subsolar_position                                            *)
(***************************************************************************)
\* the normalisation of lines 191-195 applied to r = degrees(ra - sidereal time)
normalize_sun_lon_no_upper(r) ==
    IF r < -180 THEN r + 360 ELSE r
normalize_sun_lon(r) ==
    IF r < -180 THEN r + 360
    ELSE IF r > 180 THEN r - 360
    ELSE r

\* right ascension and sidereal time as the ephemeris gives them, in [0, 360)
HourAngles ==
    { 15 * k : k \in 0..23 } \cup { 1, 179, 181, 359 }
Declinations == { -23, 0, 23 }

InitSun ==
    /\ FlightIdle
    /\ DatelineIdle
    /\ MapIdle
    /\ HaversineIdle
    /\ EscapeIdle
    /\ VideoIdle
    /\ SheetIdle
    /\ sun_pc = "call"
    /\ sun_ra \in HourAngles
    /\ sidereal_time \in HourAngles
    /\ sun_dec \in Declinations
    /\ sun_lon = 0
    /\ sun_lat = 0

\* sun_lat, sun_lon = _calculate_subsolar_position(date_time)
CalculateSubsolarPosition ==
    /\ sun_pc = "call"
    /\ sun_lon' = normalize_sun_lon(sun_ra - sidereal_time)
    /\ sun_lat' = sun_dec
    /\ sun_pc' = "done"
    /\ UNCHANGED <<sun_ra, sidereal_time, sun_dec>>
    /\ UNCHANGED <<flight_vars, dateline_vars, map_vars, haversine_vars, escape_vars,
                   video_vars, sheet_vars>>

NextSun == CalculateSubsolarPosition

SpecSun == InitSun /\ [][NextSun]_vars

(***************************************************************************)
(* milpy.math.haversine                                                    *)
(***************************************************************************)
\* np.sin(d / 2) ** 2 for d = 0..180 whole degrees, in 1/10000, rounded down
SinSqHalfTable ==
    <<     0,     0,     3,     6,    12,    19,    27,    37,    48,    61,
          75,    91,   109,   128,   148,   170,   193,   218,   244,   272,
         301,   332,   364,   397,   432,   468,   506,   544,   585,   626,
         669,   714,   759,   806,   854,   904,   954,  1006,  1059,  1114,
        1169,  1226,  1284,  1343,  1403,  1464,  1526,  1590,  1654,  1719,
        1786,  1853,  1921,  1990,  2061,  2132,  2204,  2276,  2350,  2424,
        2500,  2575,  2652,  2730,  2808,  2886,  2966,  3046,  3126,  3208,
        3289,  3372,  3454,  3538,  3621,  3705,  3790,  3875,  3960,  4045,
        4131,  4217,  4304,  4390,  4477,  4564,  4651,  4738,  4825,  4912,
        5000,  5087,  5174,  5261,  5348,  5435,  5522,  5609,  5695,  5782,
        5868,  5954,  6039,  6124,  6209,  6294,  6378,  6461,  6545,  6627,
        6710,  6791,  6873,  6953,  7033,  7113,  7191,  7269,  7347,  7424,
        7500,  7575,  7649,  7723,  7795,  7867,  7938,  8009,  8078,  8146,
        8213,  8280,  8345,  8409,  8473,  8535,  8596,  8656,  8715,  8773,
        8830,  8885,  8940,  8993,  9045,  9095,  9145,  9193,  9240,  9285,
        9330,  9373,  9414,  9455,  9493,  9531,  9567,  9602,  9635,  9667,
        9698,  9727,  9755,  9781,  9806,  9829,  9851,  9871,  9890,  9908,
        9924,  9938,  9951,  9962,  9972,  9980,  9987,  9993,  9996,  9999,
       10000 >>
\* np.cos(d) for d = 0..90 whole degrees, in 1/10000, rounded down
CosTable ==
    << 10000,  9998,  9993,  9986,  9975,  9961,  9945,  9925,  9902,  9876,
        9848,  9816,  9781,  9743,  9702,  9659,  9612,  9563,  9510,  9455,
        9396,  9335,  9271,  9205,  9135,  9063,  8987,  8910,  8829,  8746,
        8660,  8571,  8480,  8386,  8290,  8191,  8090,  7986,  7880,  7771,
        7660,  7547,  7431,  7313,  7193,  7071,  6946,  6819,  6691,  6560,
        6427,  6293,  6156,  6018,  5877,  5735,  5591,  5446,  5299,  5150,
        5000,  4848,  4694,  4539,  4383,  4226,  4067,  3907,  3746,  3583,
        3420,  3255,  3090,  2923,  2756,  2588,  2419,  2249,  2079,  1908,
        1736,  1564,  1391,  1218,  1045,   871,   697,   523,   348,   174,
           0 >>

\* an angle folded into 0..180: np.sin(d / 2) ** 2 and np.cos(d) are even
\* and have period 360
FoldAngle(d) ==
    LET m == d % 360
    IN  IF m > 180 THEN 360 - m ELSE m

sin_half_squared(d) == SinSqHalfTable[FoldAngle(d) + 1]

cos(d) ==
    LET m == FoldAngle(d)
    IN  IF m <= 90 THEN CosTable[m + 1] ELSE -CosTable[180 - m + 1]

\* the value 1.0 in the tables' unit
One == sin_half_squared(180)

\* a product of two table values, rounded toward zero
times(a, b) == IntTrunc(a * b, One)

\* what np.arcsin and np.sqrt return outside their domains
NaN == -1

\* np.degrees(2 * np.arcsin(np.sqrt(h))): the angle t with
\* sin(t / 2) ** 2 = h, rounded up to the whole degree
arc_no_doubling(h) ==
    IF h < 0 \/ h > One THEN NaN
    ELSE (CHOOSE t \in 0..180 :
            /\ SinSqHalfTable[t + 1] >= h
            /\ (t = 0 \/ SinSqHalfTable[t] < h)) \div 2
arc(h) ==
    IF h < 0 \/ h > One THEN NaN
    ELSE CHOOSE t \in 0..180 :
            /\ SinSqHalfTable[t + 1] >= h
            /\ (t = 0 \/ SinSqHalfTable[t] < h)

\* haversine(lat0, lon0, lat1, lon1), lines 48-50; there is no check of the
\* arguments and no raise
haversine_cos_lat0_twice(la0, lo0, la1, lo1) ==
    LET ha == sin_half_squared(la0 - la1)
        hb == times(times(cos(la0), cos(la0)), sin_half_squared(lo0 - lo1))
    IN  arc(ha + hb)
haversine(la0, lo0, la1, lo1) ==
    LET ha == sin_half_squared(la0 - la1)
        hb == times(times(cos(la1), cos(la0)), sin_half_squared(lo0 - lo1))
    IN  arc(ha + hb)

\* the points of the model: latitudes inside and outside [-90, 90]
HaversineLatitudes == {-135, -90, -87, -60, -23, 0, 10, 45, 90, 100}
HaversineLongitudes == {-180, -5, 0, 5, 90, 146, 180}

InitHaversine ==
    /\ FlightIdle
    /\ DatelineIdle
    /\ SunIdle
    /\ MapIdle
    /\ EscapeIdle
    /\ VideoIdle
    /\ SheetIdle
    /\ haversine_pc = "call"
    /\ hv_lat0 \in HaversineLatitudes
    /\ hv_lon0 \in HaversineLongitudes
    /\ hv_lat1 \in HaversineLatitudes
    /\ hv_lon1 \in HaversineLongitudes
    /\ angle = 0
    /\ haversine_raised = ""

\* angle = haversine(lat0, lon0, lat1, lon1)
Haversine ==
    /\ haversine_pc = "call"
    /\ angle' = haversine(hv_lat0, hv_lon0, hv_lat1, hv_lon1)
    /\ haversine_pc' = "done"
    /\ UNCHANGED <<hv_lat0, hv_lon0, hv_lat1, hv_lon1, haversine_raised>>
    /\ UNCHANGED <<flight_vars, dateline_vars, sun_vars, map_vars,
                   escape_vars,
                   video_vars, sheet_vars>>

NextHaversine == Haversine

SpecHaversine == InitHaversine /\ [][NextHaversine]_vars

(***************************************************************************)
(* _DayNightMapCreator: terminator_mask and map                            *)
(***************************************************************************)
\* np.cos(x) ** 2 at x = k * (pi / 2) / 18, k = 0..18, in 1/10000
Cos2Table ==
    << 10000, 9924, 9698, 9330, 8830, 8214, 7500, 6710, 5868, 5000,
       4132, 3290, 2500, 1786, 1170, 670, 302, 76, 0 >>
Cos2(k) == Cos2Table[k + 1]
\* the weight 1.0 in the mask's unit
FullWeight == Cos2(0)

\* lines 257-263 on one element: the value left in the array, in units of
\* (pi / 2) / 18 radians.  ind90 and ind108 are taken before the arithmetic.
scaled_angle(sza) ==
    IF sza <= 90 THEN 0
    ELSE IF sza > 108 THEN 18
    ELSE sza - 90

\* line 264 on one element: np.cos(sza_arr) ** 2
terminator_weight_sin2(sza) == FullWeight - Cos2(scaled_angle(sza))
terminator_weight(sza) == Cos2(scaled_angle(sza))

\* np.flipud: the rows in reverse order
flipud_identity(arr) == [r \in 1..Len(arr) |-> arr[r]]
flipud(arr) == [r \in 1..Len(arr) |-> arr[Len(arr) + 1 - r]]

\* terminator_mask(sza_arr): the array returned, every weight repeated over
\* the 3 colour channels, rows flipped
terminator_mask(arr) ==
    flipud([r \in 1..Len(arr) |->
              [c \in 1..Len(arr[r]) |->
                 [ch \in 1..3 |-> terminator_weight(arr[r][c])]]])

\* what terminator_mask leaves in the caller's array: -=, /=, the two indexed
\* assignments and *= all work in place; only line 264 rebinds the name
terminator_mask_argument(arr) ==
    [r \in 1..Len(arr) |->
       [c \in 1..Len(arr[r]) |-> scaled_angle(arr[r][c])]]

\* line 279: (self.day_map * twilight_mask) + (self.night_map * (1 - twilight_mask))
blend_night_weighted(day, night, mask) ==
    [r \in 1..Len(mask) |->
       [c \in 1..Len(mask[r]) |->
          [ch \in 1..3 |->
             day[r][c][ch] * (FullWeight - mask[r][c][ch])
               + night[r][c][ch] * mask[r][c][ch]]]]
blend_sum(day, night, mask) ==
    [r \in 1..Len(mask) |->
       [c \in 1..Len(mask[r]) |->
          [ch \in 1..3 |->
             day[r][c][ch] * mask[r][c][ch]
               + night[r][c][ch] * FullWeight]]]
blend(day, night, mask) ==
    [r \in 1..Len(mask) |->
       [c \in 1..Len(mask[r]) |->
          [ch \in 1..3 |->
             day[r][c][ch] * mask[r][c][ch]
               + night[r][c][ch] * (FullWeight - mask[r][c][ch])]]]

\* the zenith-angle grids of the model: a zenith angle at the first cell and
\* a constant step per row and per column, kept inside [0, 180]
Clamp(x) == IF x < 0 THEN 0 ELSE IF x > 180 THEN 180 ELSE x
SzaBases == (85..112) \cup {0, 180}
SzaRowSteps == {-9, 0, 9, 18}
SzaColSteps == {-1, 0, 1}
SzaGrids ==
    { [r \in 1..Rows |->
         [c \in 1..Cols |-> Clamp(b + (r - 1) * rs + (c - 1) * cs)]] :
      b \in SzaBases, rs \in SzaRowSteps, cs \in SzaColSteps }

\* textures after convert_to_float_image: sample k stands for k / 255; the
\* image files fix the shapes, `rows` rows of Cols columns of 3 channels
TextureSample(kind, r, c, ch) ==
    CASE kind = "black" -> 0
      [] kind = "white" -> 255
      [] kind = "ramp"  -> (37 * r + 11 * c + 60 * ch) % 256
      [] OTHER          -> (200 - 37 * r - 11 * c - 7 * ch) % 256
Texture(kind, rows) ==
    [r \in 1..rows |-> [c \in 1..Cols |-> [ch \in 1..3 |->
        TextureSample(kind, r, c, ch)]]]
TextureKinds == {"black", "white", "ramp", "ramp2"}
\* an image of the grid's height and a taller one
TextureRows == {Rows, Rows + 1}

\* sza(), lines 235-238: the grid of angles from the sub-solar point, row r
\* at latitudes[r] and column c at longitudes[c] (np.meshgrid)
longitudes == linspace(-180, 180, Cols)
latitudes == linspace(-90, 90, Rows)
sza_north_first(sub_lat, sub_lon) ==
    [r \in 1..Rows |->
       [c \in 1..Cols |->
          haversine(sub_lat, sub_lon, latitudes[Rows + 1 - r],
                    longitudes[c])]]
sza(sub_lat, sub_lon) ==
    [r \in 1..Rows |->
       [c \in 1..Cols |->
          haversine(sub_lat, sub_lon, latitudes[r], longitudes[c])]]

\* the shape of an image array
shape(arr) == << Len(arr), Len(arr[1]), Len(arr[1][1]) >>

\* the sub-solar points of the model (the declination stays inside the
\* tropics)
SubsolarLatitudes == {-23, -15, -9, 0, 9, 15, 23}
SubsolarLongitudes == {-180, -90, 0, 135}

\* either the arguments of _DayNightMapCreator(...), before the constructor
\* runs, or a creator at the point where terminator_mask is handed an array
\* of zenith angles (any window of a grid)
InitMap ==
    /\ FlightIdle
    /\ DatelineIdle
    /\ SunIdle
    /\ HaversineIdle
    /\ EscapeIdle
    /\ VideoIdle
    /\ SheetIdle
    /\ map_raised = ""
    /\ twilight_mask = << >>
    /\ map_result = << >>
    /\ \/ /\ map_pc = "args"
          /\ sub_solar_latitude \in SubsolarLatitudes
          /\ sub_solar_longitude \in SubsolarLongitudes
          /\ sza_input = << >>
          /\ sza_arr = << >>
          /\ day_map = << >>
          /\ night_map = << >>
       \/ /\ map_pc = "sza"
          /\ sub_solar_latitude = 0
          /\ sub_solar_longitude = 0
          /\ sza_input \in SzaGrids
          /\ sza_arr = sza_input
          /\ \E k \in TextureKinds : day_map = Texture(k, Rows)
          /\ \E k \in TextureKinds : night_map = Texture(k, Rows)

\* __init__, lines 215-218: the two fields and the two images; the shapes
\* of the images are not looked at
Construct ==
    /\ map_pc = "args"
    /\ \E k \in TextureKinds, rows \in TextureRows :
          day_map' = Texture(k, rows)
    /\ \E k \in TextureKinds, rows \in TextureRows :
          night_map' = Texture(k, rows)
    /\ map_pc' = "new"
    /\ UNCHANGED <<sub_solar_latitude, sub_solar_longitude, map_raised,
                   sza_input, sza_arr, twilight_mask, map_result>>
    /\ UNCHANGED <<flight_vars, dateline_vars, sun_vars, haversine_vars, escape_vars,
                   video_vars, sheet_vars>>

\* map(), line 278: the argument self.sza()
Sza ==
    /\ map_pc = "new"
    /\ sza_arr' = sza(sub_solar_latitude, sub_solar_longitude)
    /\ sza_input' = sza_arr'
    /\ map_pc' = "sza"
    /\ UNCHANGED <<sub_solar_latitude, sub_solar_longitude, map_raised,
                   twilight_mask, day_map, night_map, map_result>>
    /\ UNCHANGED <<flight_vars, dateline_vars, sun_vars, haversine_vars, escape_vars,
                   video_vars, sheet_vars>>

\* map(), line 278: twilight_mask = self.terminator_mask(self.sza())
TerminatorMask ==
    /\ map_pc = "sza"
    /\ twilight_mask' = terminator_mask(sza_arr)
    /\ sza_arr' = terminator_mask_argument(sza_arr)
    /\ map_pc' = "masked"
    /\ UNCHANGED <<sub_solar_latitude, sub_solar_longitude, map_raised,
                   sza_input, day_map, night_map, map_result>>
    /\ UNCHANGED <<flight_vars, dateline_vars, sun_vars, haversine_vars, escape_vars,
                   video_vars, sheet_vars>>

\* map(), line 279: the blend returned; numpy raises ValueError when an
\* image and the mask cannot be broadcast together
Blend ==
    /\ map_pc = "masked"
    /\ IF shape(day_map) = shape(twilight_mask)
            /\ shape(night_map) = shape(twilight_mask)
          THEN /\ map_result' = blend(day_map, night_map, twilight_mask)
               /\ map_pc' = "mapped"
               /\ UNCHANGED map_raised
          ELSE /\ map_raised' = "ValueError"
               /\ map_pc' = "error"
               /\ UNCHANGED map_result
    /\ UNCHANGED <<sub_solar_latitude, sub_solar_longitude, sza_input,
                   sza_arr, twilight_mask, day_map, night_map>>
    /\ UNCHANGED <<flight_vars, dateline_vars, sun_vars, haversine_vars, escape_vars,
                   video_vars, sheet_vars>>

NextMap ==
    \/ Construct
    \/ Sza
    \/ TerminatorMask
    \/ Blend

SpecMap == InitMap /\ [][NextMap]_vars

(***************************************************************************)
(* milpy.miscellaneous._EscapedString                                      *)
(***************************************************************************)
\* line 65: special_characters = '\|&:;()<>~*@?!$#"` ' + "'".  The literal
\* is not a raw string and \| is no escape sequence, so its first character
\* is the backslash itself.
special_characters ==
    << "\\", "|", "&", ":", ";", "(", ")", "<", ">", "~", "*", "@", "?",
       "!", "$", "#", "\"", "`", " ", "'" >>

\* string.replace(i, rf'\{i}') for a one-character i: every occurrence of i
\* becomes a backslash followed by i
RECURSIVE replace(_, _)
replace(string, i) ==
    IF string = << >> THEN << >>
    ELSE (IF Head(string) = i THEN << "\\", i >> ELSE << Head(string) >>)
            \o replace(Tail(string), i)

\* lines 66-68: the loop over special_characters from its k-th character on
RECURSIVE replace_from(_, _)
replace_from(string, k) ==
    IF k > Len(special_characters) THEN string
    ELSE replace_from(replace(string, special_characters[k]), k + 1)

_add_backslashes_before_special_characters(string) == replace_from(string, 1)

\* the characters of the model's strings: a letter, the backslash and some
\* of the characters the docstring lists
Characters == { "a", "\\", "|", " ", "$", "'" }
Strings == UNION { [1..n -> Characters] : n \in 0..MaxContent }

InitEscape ==
    /\ FlightIdle
    /\ DatelineIdle
    /\ SunIdle
    /\ MapIdle
    /\ HaversineIdle
    /\ VideoIdle
    /\ SheetIdle
    /\ escape_pc = "call"
    /\ content \in Strings
    /\ escaped = << >>
    /\ original = << >>

\* __new__, lines 57-61
EscapedString ==
    /\ escape_pc = "call"
    /\ escaped' = _add_backslashes_before_special_characters(content)
    /\ original' = content
    /\ escape_pc' = "done"
    /\ UNCHANGED content
    /\ UNCHANGED <<flight_vars, dateline_vars, sun_vars, map_vars,
                   haversine_vars, video_vars, sheet_vars>>

NextEscape == EscapedString

SpecEscape == InitEscape /\ [][NextEscape]_vars

(***************************************************************************)
(* milpy.video.processing: _File, MP4, MKV, ISO and _VideoConverter.       *)
(* The modules import EscapedString, ValidatePath and ValidateDirectory    *)
(* from milpy.miscellaneous, whose classes are named _EscapedString,       *)
(* _ValidatePath and _ValidateDirectory; the model takes the imported      *)
(* names to be those classes.                                              *)
(***************************************************************************)
\* str.rfind of a character, counted from 1 (0 when it does not occur)
rfind(string, ch) ==
    IF \E i \in 1..Len(string) : string[i] = ch
       THEN CHOOSE i \in 1..Len(string) :
                /\ string[i] = ch
                /\ \A j \in (i + 1)..Len(string) : string[j] # ch
       ELSE 0

\* Path(path).name: the last component, empty components and "." left out
RECURSIVE name(_)
name(path) ==
    IF path = << >> THEN << >>
    ELSE IF path[Len(path)] = "/" THEN name(SubSeq(path, 1, Len(path) - 1))
    ELSE LET i == rfind(path, "/")
             last == SubSeq(path, i + 1, Len(path))
         IN  IF last = << "." >> THEN name(SubSeq(path, 1, i)) ELSE last

\* Path(path).suffix: the name from its last dot on, when that dot is
\* neither the first nor the last character of the name
suffix(path) ==
    LET n == name(path)
        i == rfind(n, ".")
    IN  IF 1 < i /\ i < Len(n) THEN SubSeq(n, i, Len(n)) ELSE << >>

\* str.replace(old, new) for a non-empty old: every occurrence, left to right
RECURSIVE str_replace(_, _, _)
str_replace(string, old, new) ==
    IF Len(string) < Len(old) THEN string
    ELSE IF SubSeq(string, 1, Len(old)) = old
         THEN new \o str_replace(SubSeq(string, Len(old) + 1, Len(string)),
                                 old, new)
         ELSE << Head(string) >> \o str_replace(Tail(string), old, new)

\* os.path.splitext: <<root, ext>>; the dots that begin the last component
\* do not start an extension
splitext(path) ==
    LET sep == rfind(path, "/")
        dot == rfind(path, ".")
    IN  IF dot > sep /\ \E k \in (sep + 1)..(dot - 1) : path[k] # "."
           THEN << SubSeq(path, 1, dot - 1), SubSeq(path, dot, Len(path)) >>
           ELSE << path, << >> >>

\* os.path.dirname
RECURSIVE rstrip_slashes(_)
rstrip_slashes(string) ==
    IF string # << >> /\ string[Len(string)] = "/"
       THEN rstrip_slashes(SubSeq(string, 1, Len(string) - 1))
       ELSE string
dirname(path) ==
    LET head == SubSeq(path, 1, rfind(path, "/"))
    IN  IF \E k \in 1..Len(head) : head[k] # "/"
           THEN rstrip_slashes(head)
           ELSE head

\* the extension each class asks _File for (lines 104, 170, 217)
extension(class) ==
    CASE class = "MP4" -> << "m", "p", "4" >>
      [] class = "MKV" -> << "m", "k", "v" >>
      [] OTHER         -> << "i", "s", "o" >>

\* _File.__new__, lines 66-68: the name of the exception raised, "" if the
\* string is made.  The existence check comes first.
File_raises_type_error_first(path, ext, existing) ==
    IF suffix(path) # << "." >> \o ext THEN "TypeError"
    ELSE IF path \notin existing THEN "ValueError"
    ELSE ""
File_raises(path, ext, existing) ==
    IF path \notin existing THEN "ValueError"
    ELSE IF suffix(path) # << "." >> \o ext THEN "TypeError"
    ELSE ""

\* _set_converter_options: the destination each class derives from the path
converted_suffix(class, file_extension) ==
    CASE class = "MP4" ->
             << "_", "c", "o", "n", "v", "e", "r", "t", "e", "d" >>
                 \o file_extension
      [] class = "MKV" ->
             << "_", "c", "o", "n", "v", "e", "r", "t", "e", "d", ".",
                "m", "p", "4" >>
      [] OTHER ->
             << ",", " ", "T", "i", "t", "l", "e", " ", "1", " ", "(", "C",
                "o", "n", "v", "e", "r", "t", "e", "d", ")", ".", "m", "p",
                "4" >>
destination_of(class, path) ==
    str_replace(path, suffix(path), converted_suffix(class, suffix(path)))

\* VideoConversionOptions(source, destination) with the defaults of
\* SourceOptions, DestinationOptions and VideoOptions (the audio, picture and
\* subtitle options keep their defaults throughout and are left out)
VideoConversionOptions(source, destination) ==
    [ source      |-> [input |-> source, title |-> "1"],
      destination |-> [output |-> destination, format |-> "av_mp4"],
      video       |-> [encoder |-> "x265", speed |-> "fast", quality |-> "20",
                       two_pass |-> FALSE] ]

\* ValidateDirectory(output): os.mkdir of the output's directory when it does
\* not exist; "" or the exception os.mkdir raises
mkdir_raises(directory, existing) ==
    IF directory \in existing THEN ""
    ELSE IF directory = << >> THEN "FileNotFoundError"
    ELSE IF dirname(directory) # << >> /\ dirname(directory) \notin existing
         THEN "FileNotFoundError"
    ELSE ""

\* the paths of the model: up to MaxPieces pieces, character by character
Pieces ==
    { << "/" >>, << "a" >>, << "." >>, << " " >>, << "m", "p", "4" >>,
      << "m", "k", "v" >>, << "i", "s", "o" >> }
RECURSIVE Concat(_)
Concat(pieces) ==
    IF pieces = << >> THEN << >> ELSE Head(pieces) \o Concat(Tail(pieces))
Paths == { Concat(ps) : ps \in UNION { [1..n -> Pieces] : n \in 1..MaxPieces } }
Root == << "/" >>

\* a path that can name a regular file: it does not end in a slash and its
\* last component is neither "." nor ".."
is_file_name(path) ==
    /\ path # << >>
    /\ path[Len(path)] # "/"
    /\ SubSeq(path, rfind(path, "/") + 1, Len(path))
           \notin { << "." >>, << ".", "." >> }

\* the arguments of MP4(...), MKV(...) or ISO(...) and the file system
\* before the constructor runs: the path names a regular file or nothing
InitVideo ==
    /\ FlightIdle
    /\ DatelineIdle
    /\ SunIdle
    /\ MapIdle
    /\ HaversineIdle
    /\ EscapeIdle
    /\ SheetIdle
    /\ video_pc = "call"
    /\ video_class \in {"MP4", "MKV", "ISO"}
    /\ argument \in Paths
    /\ files \in IF is_file_name(argument) THEN { {}, {argument} } ELSE { {} }
    /\ directories =
          {Root} \cup { dirname(f) : f \in { g \in files : dirname(g) # << >> } }
    /\ file_path = << >>
    /\ terminal_file_path = << >>
    /\ converter_options = NoOptions
    /\ temporary_filepath = << >>
    /\ commands = << >>
    /\ video_raised = ""

\* MP4.__init__, MKV.__init__, ISO.__init__: _File, EscapedString and
\* _set_converter_options in this order; the first exception ends it
VideoInit ==
    /\ video_pc = "call"
    /\ LET failed == File_raises(argument, extension(video_class), files)
           destination == destination_of(video_class, argument)
           no_directory == mkdir_raises(dirname(destination), directories)
       IN  IF failed # ""
              THEN /\ video_raised' = failed
                   /\ video_pc' = "error"
                   /\ UNCHANGED <<file_path, terminal_file_path,
                                  converter_options, directories>>
           ELSE IF no_directory # ""
              THEN /\ video_raised' = no_directory
                   /\ video_pc' = "error"
                   /\ file_path' = argument
                   /\ terminal_file_path' =
                          _add_backslashes_before_special_characters(argument)
                   /\ UNCHANGED <<converter_options, directories>>
           ELSE IF argument = destination
              THEN /\ video_raised' = "Exception"
                   /\ video_pc' = "error"
                   /\ file_path' = argument
                   /\ terminal_file_path' =
                          _add_backslashes_before_special_characters(argument)
                   /\ directories' = directories \cup {dirname(destination)}
                   /\ UNCHANGED converter_options
           ELSE /\ file_path' = argument
                /\ terminal_file_path' =
                       _add_backslashes_before_special_characters(argument)
                /\ converter_options' =
                       VideoConversionOptions(argument, destination)
                /\ directories' = directories \cup {dirname(destination)}
                /\ video_pc' = "constructed"
                /\ UNCHANGED video_raised
    /\ UNCHANGED <<video_class, argument, files, temporary_filepath, commands>>
    /\ UNCHANGED <<flight_vars, dateline_vars, sun_vars, map_vars,
                   haversine_vars, escape_vars, sheet_vars>>

\* _VideoConverter._create_command_of_input_options: the command line made
\* of the options' terminal commands (the same executable every time)
create_command_of_input_options(options) ==
    [ source |-> options.source, destination |-> options.destination,
      video |-> options.video, seconds |-> << >> ]

\* _set_test_video_options, lines 26-27, on the options object it was given
set_test_video_options(options) ==
    [options EXCEPT !.video.encoder = "x264", !.video.speed = "ultrafast"]

\* _add_10_second_test_to_options: --start-at=seconds:0 --stop-at=seconds:10
add_10_second_test_to_options(command) ==
    [command EXCEPT !.seconds = << 0, 10 >>]

Usable == video_pc \in {"constructed", "tagged"}

\* convert(), lines 115-121 and 33-35; _VideoConverter keeps a reference to
\* self.converter_options, no copy
Convert ==
    /\ Usable
    /\ Len(commands) < MaxCommands
    /\ commands' =
          Append(commands, create_command_of_input_options(converter_options))
    /\ UNCHANGED <<video_pc, video_class, argument, files, directories,
                   file_path, terminal_file_path, converter_options,
                   temporary_filepath, video_raised>>
    /\ UNCHANGED <<flight_vars, dateline_vars, sun_vars, map_vars,
                   haversine_vars, escape_vars, sheet_vars>>

\* test_convert(), lines 123-128 and 37-41
TestConvert ==
    /\ Usable
    /\ Len(commands) < MaxCommands
    /\ converter_options' = set_test_video_options(converter_options)
    /\ commands' =
          Append(commands,
                 add_10_second_test_to_options(
                     create_command_of_input_options(converter_options')))
    /\ UNCHANGED <<video_pc, video_class, argument, files, directories,
                   file_path, terminal_file_path, temporary_filepath,
                   video_raised>>
    /\ UNCHANGED <<flight_vars, dateline_vars, sun_vars, map_vars,
                   haversine_vars, escape_vars, sheet_vars>>

\* make_temporary_video, lines 17-19: the path with _temp before its
\* extension
temporary_path(source_filepath) ==
    LET parts == splitext(source_filepath)
    IN  parts[1] \o << "_", "t", "e", "m", "p" >> \o parts[2]

\* the word a shell reads from an escaped string: every backslash gives the
\* character after it
RECURSIVE shell_word(_)
shell_word(string) ==
    IF string = << >> THEN << >>
    ELSE IF Head(string) = "\\" /\ Len(string) > 1
         THEN << string[2] >> \o shell_word(SubSeq(string, 3, Len(string)))
         ELSE << Head(string) >> \o shell_word(Tail(string))

\* mv source target, as the shell runs it: nothing moves when there is no
\* source
mv(existing, source, target) ==
    IF source \in existing
       THEN (existing \ {source}) \cup {target}
       ELSE existing

\* MP4.tag, line 139: temporary_filepath = make_temporary_video(self.file_path)
TagMove ==
    /\ Usable
    /\ video_class = "MP4"
    /\ temporary_filepath' = temporary_path(file_path)
    /\ files' =
          mv(files,
             shell_word(_add_backslashes_before_special_characters(file_path)),
             shell_word(_add_backslashes_before_special_characters(
                            temporary_filepath')))
    /\ video_pc' = "moved"
    /\ UNCHANGED <<video_class, argument, directories, file_path,
                   terminal_file_path, converter_options, commands,
                   video_raised>>
    /\ UNCHANGED <<flight_vars, dateline_vars, sun_vars, map_vars,
                   haversine_vars, escape_vars, sheet_vars>>

\* MP4.tag, lines 140-145: os.system runs the tagger from the temporary path
\* to the original path; its exit status is not looked at.  The tagger
\* writes the destination when it succeeds and nothing when it fails (it
\* fails when there is no source).
TagRun ==
    /\ video_pc = "moved"
    /\ \E succeeded \in {TRUE, FALSE} :
          files' = IF succeeded /\ temporary_filepath \in files
                      THEN files \cup {file_path}
                      ELSE files
    /\ video_pc' = "ran"
    /\ UNCHANGED <<video_class, argument, directories, file_path,
                   terminal_file_path, converter_options, temporary_filepath,
                   commands, video_raised>>
    /\ UNCHANGED <<flight_vars, dateline_vars, sun_vars, map_vars,
                   haversine_vars, escape_vars, sheet_vars>>

\* MP4.tag, line 146: os.remove(temporary_filepath.original)
TagRemove ==
    /\ video_pc = "ran"
    /\ IF temporary_filepath \in files
          THEN /\ files' = files \ {temporary_filepath}
               /\ video_raised' = ""
          ELSE /\ video_raised' = "FileNotFoundError"
               /\ UNCHANGED files
    /\ video_pc' = "tagged"
    /\ UNCHANGED <<video_class, argument, directories, file_path,
                   terminal_file_path, converter_options, temporary_filepath,
                   commands>>
    /\ UNCHANGED <<flight_vars, dateline_vars, sun_vars, map_vars,
                   haversine_vars, escape_vars, sheet_vars>>

NextVideo ==
    \/ VideoInit
    \/ Convert
    \/ TestConvert
    \/ TagMove
    \/ TagRun
    \/ TagRemove

SpecVideo == InitVideo /\ [][NextVideo]_vars

(***************************************************************************)
(* milpy.video._subler: _Spreadsheet.  A row of the spreadsheet is a       *)
(* function from the column names to the cells; pandas reads a blank cell  *)
(* as NaN, which dropna() removes.                                         *)
(***************************************************************************)
\* _handbrake_dictionary_keys()
handbrake_dictionary_keys ==
    { "Source", "Destination", "Title", "Audio", "Dimensions", "Crop",
      "Audio Bitrate", "Audio Mixdown", "Audio Track Names", "Subtitle",
      "Chapters", "Quality Factor" }

\* the columns of the model's spreadsheet: four of Handbrake's and three of
\* the tags
Columns ==
    { "Source", "Title", "Dimensions", "Crop", "Name", "Genre", "Copyright" }
Cells == { Blank, << "x" >> }

\* _get_item_metadata: the row without its blank cells
get_item_metadata(row) ==
    [ key \in { k \in DOMAIN row : row[k] # Blank } |-> row[key] ]

\* the dictionary comprehensions of lines 49-50 and 54-55
subler_comprehension(row) ==
    LET item == get_item_metadata(row)
    IN  [ key \in DOMAIN item \ handbrake_dictionary_keys |-> item[key] ]
make_handbrake_dictionary(row) ==
    LET item == get_item_metadata(row)
    IN  [ key \in DOMAIN item \cap handbrake_dictionary_keys |-> item[key] ]

\* _include_copyright_symbol: reads subler_dictionary["Copyright"] and puts
\* U+00A9 (written "(c)" here) and a space before it
copyright_symbol == << "(c)", " " >>
include_copyright_symbol(dictionary) ==
    [ key \in DOMAIN dictionary |->
        IF key = "Copyright" THEN copyright_symbol \o dictionary[key]
                             ELSE dictionary[key] ]

\* the spreadsheet's path before _Spreadsheet(...) runs, or an object whose
\* metadata attribute holds the table, before its methods are called on a row
InitSheet ==
    /\ FlightIdle
    /\ DatelineIdle
    /\ SunIdle
    /\ MapIdle
    /\ HaversineIdle
    /\ EscapeIdle
    /\ VideoIdle
    /\ sheet_pc \in {"call", "loaded"}
    /\ metadata \in [Columns -> Cells]
    /\ subler_dictionary = << >>
    /\ handbrake_dictionary = << >>
    /\ sheet_raised = ""

\* _Spreadsheet.__init__: line 27 is an annotation, it assigns nothing, and
\* line 28 reads self.metadata
SheetInit ==
    /\ sheet_pc = "call"
    /\ sheet_raised' = "AttributeError"
    /\ sheet_pc' = "error"
    /\ UNCHANGED <<metadata, subler_dictionary, handbrake_dictionary>>
    /\ UNCHANGED <<flight_vars, dateline_vars, sun_vars, map_vars,
                   haversine_vars, escape_vars, video_vars>>

\* make_subler_dictionary(line)
MakeSublerDictionary ==
    /\ sheet_pc = "loaded"
    /\ LET dictionary == subler_comprehension(metadata)
       IN  IF "Copyright" \in DOMAIN dictionary
              THEN /\ subler_dictionary' = include_copyright_symbol(dictionary)
                   /\ sheet_pc' = "subler"
                   /\ UNCHANGED sheet_raised
              ELSE /\ sheet_raised' = "KeyError"
                   /\ sheet_pc' = "raised"
                   /\ UNCHANGED subler_dictionary
    /\ UNCHANGED <<metadata, handbrake_dictionary>>
    /\ UNCHANGED <<flight_vars, dateline_vars, sun_vars, map_vars,
                   haversine_vars, escape_vars, video_vars>>

\* make_handbrake_dictionary(line)
MakeHandbrakeDictionary ==
    /\ sheet_pc = "subler"
    /\ handbrake_dictionary' = make_handbrake_dictionary(metadata)
    /\ sheet_pc' = "both"
    /\ UNCHANGED <<metadata, subler_dictionary, sheet_raised>>
    /\ UNCHANGED <<flight_vars, dateline_vars, sun_vars, map_vars,
                   haversine_vars, escape_vars, video_vars>>

NextSheet ==
    \/ SheetInit
    \/ MakeSublerDictionary
    \/ MakeHandbrakeDictionary

SpecSheet == InitSheet /\ [][NextSheet]_vars

(***************************************************************************)
(* Properties: the frame count (C1)                                        *)
(***************************************************************************)
Counted == pc \in {"counted", "flown", "constructed", "error"}
Duration == arrival_time - departure_time

\* C1 as stated: for every pair of instants, arrival before departure and
\* durations that are no whole number of minutes included, n_frames is
\* floor(duration in seconds / 60) + 1.
C1_FrameCountIsFloor ==
    Counted => n_frames = (Duration \div 60) + 1

\* C1 (amended): n_frames is the quotient rounded toward zero, plus 1: it is
\* floor(duration / 60) + 1 when the duration is >= 0 or a whole number of
\* minutes, and floor(duration / 60) + 2 otherwise; 196 minutes give 197.
C1_FrameCount ==
    Counted =>
        /\ n_frames = IF Duration >= 0 \/ Duration % 60 = 0
                         THEN (Duration \div 60) + 1
                         ELSE (Duration \div 60) + 2
        /\ (Duration = 196 * 60 => n_frames = 197)

\* a flight that arrives 90 seconds before it departs has 0 frames, not -1
C1_Witness ==
    /\ pc = "counted"
    /\ Duration = -90
    /\ n_frames = 0

(***************************************************************************)
(* Properties: the end points of the flight path (C2)                      *)
(***************************************************************************)
Flown == pc \in {"flown", "constructed"}

\* C2: with n_frames >= 2 and no dateline correction, the first entry of
\* flight_path is the departure airport and the last is the arrival airport.
C2_PathStartsAndEndsAtAirports ==
    ( /\ Flown
      /\ n_frames >= 2
      /\ ~NearDateline(flight_path_raw(departure_airport, arrival_airport,
                                       n_frames)) )
    => /\ flight_path[1] = departure_airport
       /\ flight_path[Len(flight_path)] = arrival_airport

(***************************************************************************)
(* Properties: dateline_fix (C3, C4)                                       *)
(***************************************************************************)
\* the circular distance of two longitudes, in [0, 180] degrees
CircularDistance(a, b) == Abs(WrapLon(b - a))

\* C3: if some longitude is < -175 or > 175, every longitude < 0 comes back
\* increased by exactly 360 and every longitude >= 0 unchanged; otherwise the
\* sequence comes back unchanged; latitudes, length and order are kept.
C3_DatelineFix ==
    dl_pc = "done" =>
        LET triggered ==
                \E i \in 1..Len(dl_input) :
                    \/ Lon(dl_input[i]) < Deg(-175)
                    \/ Lon(dl_input[i]) > Deg(175)
        IN  /\ Len(dl_result) = Len(dl_input)
            /\ \A i \in 1..Len(dl_input) :
                  /\ Lat(dl_result[i]) = Lat(dl_input[i])
                  /\ (triggered /\ Lon(dl_input[i]) < 0
                        => Lon(dl_result[i]) = Lon(dl_input[i]) + Deg(360))
                  /\ (triggered /\ Lon(dl_input[i]) >= 0
                        => Lon(dl_result[i]) = Lon(dl_input[i]))
            /\ (~triggered => dl_result = dl_input)

\* a triggering sequence with a negative and a positive longitude, fixed
C3_Witness ==
    /\ dl_pc = "done"
    /\ Len(dl_input) = 2
    /\ Lon(dl_input[1]) = Deg(176)
    /\ Lon(dl_input[2]) = Deg(-179)
    /\ Lon(dl_result[1]) = Deg(176)
    /\ Lon(dl_result[2]) = Deg(181)

\* C4: when dateline_fix triggers on a sequence whose consecutive points are
\* less than 180 degrees apart around the circle, consecutive corrected
\* longitudes differ by less than 180 degrees.
C4_CorrectedIsContinuous ==
    ( /\ dl_pc = "done"
      /\ NearDateline(dl_input)
      /\ \A i \in 1..(Len(dl_input) - 1) :
            CircularDistance(Lon(dl_input[i]), Lon(dl_input[i + 1])) < Deg(180) )
    => \A i \in 1..(Len(dl_result) - 1) :
          Abs(Lon(dl_result[i + 1]) - Lon(dl_result[i])) < Deg(180)

(***************************************************************************)
(* Properties: the range of the paths' longitudes (C5)                     *)
(***************************************************************************)
Longitudes(path) == { Lon(path[i]) : i \in 1..Len(path) }

\* C5 as stated: every longitude of flight_path and of camera_path, after
\* the dateline correction, is in (-180, 180].
C5_LongitudesWrapped ==
    /\ Flown =>
          \A x \in Longitudes(flight_path) : Deg(-180) < x /\ x <= Deg(180)
    /\ pc = "constructed" =>
          \A x \in Longitudes(camera_path) : Deg(-180) < x /\ x <= Deg(180)

\* the longitudes of a path on which the correction did not trigger, and of
\* one on which it did
Uncorrected(path) ==
    \A x \in Longitudes(path) : Deg(-175) <= x /\ x <= Deg(175)
Unwrapped(path) ==
    \A x \in Longitudes(path) : 0 <= x /\ x < Deg(360)

\* C5 (amended): the longitudes of flight_path and of camera_path lie in
\* (-180, 360): all in [-175, 175] when the correction did not trigger, all
\* in [0, 360) when it did (the shifted longitudes are not wrapped back).
C5_LongitudeRange ==
    /\ Flown => Uncorrected(flight_path) \/ Unwrapped(flight_path)
    /\ pc = "constructed" => Uncorrected(camera_path) \/ Unwrapped(camera_path)

\* a plan across the dateline: both paths hold a longitude above 180
C5_Witness ==
    /\ pc = "constructed"
    /\ \E x \in Longitudes(flight_path) : x > Deg(180)
    /\ \E x \in Longitudes(camera_path) : x > Deg(180)

(***************************************************************************)
(* Properties: the sub-solar longitude (C6)                                *)
(***************************************************************************)
RawSunLon == sun_ra - sidereal_time

\* C6 as stated: the longitude returned is in (-180, 180] and is r, r + 360
\* (when r < -180) or r - 360 (when r > 180).
C6_SunLonHalfOpen ==
    sun_pc = "done" =>
        /\ -180 < sun_lon /\ sun_lon <= 180
        /\ \/ sun_lon = RawSunLon
           \/ RawSunLon < -180 /\ sun_lon = RawSunLon + 360
           \/ RawSunLon > 180 /\ sun_lon = RawSunLon - 360

\* C6 (amended): the longitude returned is in the closed interval
\* [-180, 180] (r = -180 comes back unchanged) and is r + 360 when r < -180,
\* r - 360 when r > 180 and r otherwise.
C6_SunLonClosed ==
    sun_pc = "done" =>
        /\ -180 <= sun_lon /\ sun_lon <= 180
        /\ (RawSunLon < -180 => sun_lon = RawSunLon + 360)
        /\ (RawSunLon > 180 => sun_lon = RawSunLon - 360)
        /\ (-180 <= RawSunLon /\ RawSunLon <= 180 => sun_lon = RawSunLon)

\* the raw value -180 is returned as -180
C6_Witness ==
    /\ sun_pc = "done"
    /\ RawSunLon = -180
    /\ sun_lon = -180

(***************************************************************************)
(* Properties: the terminator mask and the blend (C7, C8, C9)              *)
(***************************************************************************)
Masked == map_pc \in {"masked", "mapped", "error"}
GridRows == 1..Len(sza_input)
GridCols == 1..Len(sza_input[1])
Channels == 1..3
HalfWeight == Cos2(9)
\* the zenith angle that mask row r, column c was computed from
SzaOf(r, c) == sza_input[Len(sza_input) + 1 - r][c]

\* C7 as stated: the mask is the night weight: 0 for every SZA <= 90, 1 for
\* every SZA > 108 and at 108, 0.5 at 99, rising inside the band.
C7_MaskIsNightWeight ==
    Masked =>
        \A r \in GridRows, c \in GridCols, ch \in Channels :
            /\ (SzaOf(r, c) <= 90 => twilight_mask[r][c][ch] = 0)
            /\ (SzaOf(r, c) >= 108 => twilight_mask[r][c][ch] = FullWeight)
            /\ (SzaOf(r, c) = 99 => twilight_mask[r][c][ch] = HalfWeight)
            /\ \A r2 \in GridRows, c2 \in GridCols :
                  (90 <= SzaOf(r, c) /\ SzaOf(r, c) <= SzaOf(r2, c2)
                                     /\ SzaOf(r2, c2) <= 108)
                  => twilight_mask[r][c][ch] <= twilight_mask[r2][c2][ch]

\* C7 (amended): the mask is the day weight: 1 for every SZA <= 90
\* (90 included), 0 for every SZA > 108 and at 108, and inside the band the
\* weight falls from 1 at 90 through 0.5 at 99 to 0 at 108.
C7_MaskIsDayWeight ==
    Masked =>
        \A r \in GridRows, c \in GridCols, ch \in Channels :
            /\ (SzaOf(r, c) <= 90 => twilight_mask[r][c][ch] = FullWeight)
            /\ (SzaOf(r, c) >= 108 => twilight_mask[r][c][ch] = 0)
            /\ (SzaOf(r, c) = 99 => twilight_mask[r][c][ch] = HalfWeight)
            /\ \A r2 \in GridRows, c2 \in GridCols :
                  (90 <= SzaOf(r, c) /\ SzaOf(r, c) <= SzaOf(r2, c2)
                                     /\ SzaOf(r2, c2) <= 108)
                  => twilight_mask[r][c][ch] >= twilight_mask[r2][c2][ch]

\* a mask made from a grid that holds both ends of the band, 90 and 108
C7_Witness ==
    /\ map_pc = "masked"
    /\ \E r \in GridRows, c \in GridCols :
          SzaOf(r, c) = 90 /\ twilight_mask[r][c][1] = FullWeight
    /\ \E r \in GridRows, c \in GridCols :
          SzaOf(r, c) = 108 /\ twilight_mask[r][c][1] = 0

\* C8 as stated: the blend is day * (1 - w) + night * w with w the mask:
\* where the mask is 0 the pixel is the day pixel, where it is 1 the night
\* pixel.
C8_BlendNightWeighted ==
    map_pc = "mapped" =>
        \A r \in GridRows, c \in GridCols, ch \in Channels :
            /\ map_result[r][c][ch] =
                  day_map[r][c][ch] * (FullWeight - twilight_mask[r][c][ch])
                    + night_map[r][c][ch] * twilight_mask[r][c][ch]
            /\ (twilight_mask[r][c][ch] = 0
                  => map_result[r][c][ch] = day_map[r][c][ch] * FullWeight)
            /\ (twilight_mask[r][c][ch] = FullWeight
                  => map_result[r][c][ch] = night_map[r][c][ch] * FullWeight)

\* C8 (amended): the blend is day * w + night * (1 - w) with w the mask:
\* where the mask is 1 the pixel is the day pixel, where it is 0 the night
\* pixel.
C8_BlendDayWeighted ==
    map_pc = "mapped" =>
        \A r \in GridRows, c \in GridCols, ch \in Channels :
            /\ map_result[r][c][ch] =
                  day_map[r][c][ch] * twilight_mask[r][c][ch]
                    + night_map[r][c][ch] * (FullWeight - twilight_mask[r][c][ch])
            /\ (twilight_mask[r][c][ch] = FullWeight
                  => map_result[r][c][ch] = day_map[r][c][ch] * FullWeight)
            /\ (twilight_mask[r][c][ch] = 0
                  => map_result[r][c][ch] = night_map[r][c][ch] * FullWeight)

\* a map with a full-day pixel and a full-night pixel whose textures differ
C8_Witness ==
    /\ map_pc = "mapped"
    /\ \E r \in GridRows, c \in GridCols, ch \in Channels :
          /\ twilight_mask[r][c][ch] = FullWeight
          /\ day_map[r][c][ch] # night_map[r][c][ch]
          /\ map_result[r][c][ch] = day_map[r][c][ch] * FullWeight
    /\ \E r \in GridRows, c \in GridCols, ch \in Channels :
          /\ twilight_mask[r][c][ch] = 0
          /\ day_map[r][c][ch] # night_map[r][c][ch]
          /\ map_result[r][c][ch] = night_map[r][c][ch] * FullWeight

\* C9: with texture samples in [0, 1], every mask weight is in [0, 1] and
\* every sample of the map returned is in [0, 1].
C9_WeightsAndPixelsInUnitRange ==
    /\ Masked =>
          \A r \in GridRows, c \in GridCols, ch \in Channels :
              0 <= twilight_mask[r][c][ch] /\ twilight_mask[r][c][ch] <= FullWeight
    /\ map_pc = "mapped" =>
          \A r \in GridRows, c \in GridCols, ch \in Channels :
              /\ 0 <= map_result[r][c][ch]
              /\ map_result[r][c][ch] <= 255 * FullWeight

\* a twilight pixel between two white textures: the blend is exactly 1
C9_Witness ==
    /\ map_pc = "mapped"
    /\ \E r \in GridRows, c \in GridCols, ch \in Channels :
          /\ 0 < twilight_mask[r][c][ch] /\ twilight_mask[r][c][ch] < FullWeight
          /\ day_map[r][c][ch] = 255
          /\ night_map[r][c][ch] = 255
          /\ map_result[r][c][ch] = 255 * FullWeight

(***************************************************************************)
(* Properties: the camera path follows the flight path's longitudes (C10)  *)
(***************************************************************************)
\* C10: camera_path has exactly n_frames entries, as many as flight_path,
\* and at every frame the longitude of camera_path is the (corrected)
\* longitude of flight_path.
C10_CameraFollowsLongitudes ==
    pc = "constructed" =>
        /\ Len(camera_path) = n_frames
        /\ Len(flight_path) = n_frames
        /\ \A i \in 1..n_frames : Lon(camera_path[i]) = Lon(flight_path[i])

\* a constructed plan across the dateline: the flight path holds shifted and
\* unshifted longitudes, and the camera path holds the shifted one too
C10_Witness ==
    /\ pc = "constructed"
    /\ n_frames >= 3
    /\ \E i \in 1..n_frames :
          /\ Lon(flight_path[i]) > Deg(180)
          /\ Lon(camera_path[i]) = Lon(flight_path[i])
    /\ \E i \in 1..n_frames : Lon(flight_path[i]) < Deg(180)

(***************************************************************************)
(* Properties: the camera path's latitudes (C11)                           *)
(***************************************************************************)
\* C11: the latitudes of camera_path are an arithmetic progression from the
\* first latitude of flight_path to its last: the two ends agree and every
\* two consecutive differences are the same.
C11_CameraLatitudesLinear ==
    pc = "constructed" =>
        /\ Lat(camera_path[1]) = Lat(flight_path[1])
        /\ Lat(camera_path[n_frames]) = Lat(flight_path[n_frames])
        /\ \A i \in 1..(n_frames - 2) :
              Lat(camera_path[i + 1]) - Lat(camera_path[i])
                = Lat(camera_path[i + 2]) - Lat(camera_path[i + 1])

\* a plan over the pole: the flight's latitudes rise and fall, the camera's
\* move in equal non-zero steps
C11_Witness ==
    /\ pc = "constructed"
    /\ n_frames >= 3
    /\ Lat(camera_path[2]) # Lat(camera_path[1])
    /\ \E i \in 1..n_frames : Lat(camera_path[i]) # Lat(flight_path[i])

(***************************************************************************)
(* C12: every frame the animation draws has an index i with                *)
(* 0 <= i < n_frames that is an index of both paths; its sub-solar point   *)
(* is computed for departure_time + i minutes, its projection is centred   *)
(* on camera_path[i], its plane marker is at flight_path[i] and its trail  *)
(* is flight_path[0..i-1] in order.                                        *)
(***************************************************************************)
FrameDrawn == pc \in {"animating", "saved"} /\ frames_drawn > 0

C12_FrameReadsItsOwnIndex ==
    FrameDrawn =>
        /\ 0 <= iterator /\ iterator < n_frames
        /\ iterator + 1 \in DOMAIN flight_path
        /\ iterator + 1 \in DOMAIN camera_path
        /\ frame_time = departure_time + 60 * iterator
        /\ projection = camera_path[iterator + 1]
        /\ marker = flight_path[iterator + 1]
        /\ trail = [j \in 1..iterator |-> flight_path[j]]

\* a frame after the first two, with a trail, on a plan whose camera path
\* is not its flight path
C12_Witness ==
    /\ FrameDrawn
    /\ iterator = 2
    /\ Len(trail) = 2
    /\ projection # marker

(***************************************************************************)
(* Properties of haversine (C15, C16, C19)                                 *)
(***************************************************************************)
Returned == haversine_pc = "done"
ValidLatitude(lat) == -90 <= lat /\ lat <= 90
ValidPoints == ValidLatitude(hv_lat0) /\ ValidLatitude(hv_lat1)

\* C15: for valid points the angle from (lat0, lon0) to (lat1, lon1) is the
\* angle from (lat1, lon1) to (lat0, lon0).
C15_HaversineSymmetric ==
    (Returned /\ ValidPoints) =>
        angle = haversine(hv_lat1, hv_lon1, hv_lat0, hv_lon0)

\* two points of different latitudes with different cosines, neither
\* coincident nor antipodal
C15_Witness ==
    /\ Returned /\ ValidPoints
    /\ cos(hv_lat0) # cos(hv_lat1)
    /\ hv_lon0 # hv_lon1
    /\ 0 < angle /\ angle < 180

\* C16: for valid points the angle is in [0, 180]; it is 0 when the two
\* points coincide and 180 between (lat 0, lon 0) and (lat 0, lon 180).
C16_HaversineRange ==
    (Returned /\ ValidPoints) =>
        /\ 0 <= angle /\ angle <= 180
        /\ (hv_lat0 = hv_lat1 /\ hv_lon0 = hv_lon1 => angle = 0)
        /\ (hv_lat0 = 0 /\ hv_lat1 = 0 /\ Abs(hv_lon0 - hv_lon1) = 180
              => angle = 180)

\* the antipodal pair of the equator
C16_Witness ==
    /\ Returned
    /\ hv_lat0 = 0 /\ hv_lon0 = 0 /\ hv_lat1 = 0 /\ hv_lon1 = 180
    /\ angle = 180

\* C19 as stated: a call with a latitude outside [-90, 90] does not return;
\* it raises OutOfRangeCoordinateError.
C19_OutOfRangeLatitudeRaises ==
    (haversine_pc # "call" /\ ~ValidPoints) =>
        /\ haversine_pc = "error"
        /\ haversine_raised = "OutOfRangeCoordinateError"

(***************************************************************************)
(* Properties of the mask's orientation and of the twilight band (C13,     *)
(* C14) and of textures of different shapes (C18)                          *)
(***************************************************************************)
FullGrid == sza_input = sza(sub_solar_latitude, sub_solar_longitude)

\* C13: the mask is the vertical flip of the grid it was computed from:
\* row r of an H-row mask holds the weights of input row H + 1 - r (rows
\* counted from 1), column by column, the same in the 3 channels; the rows
\* of sza() run from latitude -90 to +90, so the first row of the mask is
\* the north-pole row.
C13_MaskIsFlippedGrid ==
    Masked =>
        /\ Len(twilight_mask) = Len(sza_input)
        /\ \A r \in GridRows, c \in GridCols, ch \in Channels :
              twilight_mask[r][c][ch] =
                  terminator_weight(sza_input[Len(sza_input) + 1 - r][c])
        /\ FullGrid =>
              /\ latitudes[1] = -90 /\ latitudes[Rows] = 90
              /\ \A c \in GridCols, ch \in Channels :
                    twilight_mask[1][c][ch] =
                        terminator_weight(
                            haversine(sub_solar_latitude, sub_solar_longitude,
                                      90, longitudes[c]))

\* the mask of a full grid with the north pole in daylight and the south
\* pole in twilight
C13_Witness ==
    /\ map_pc = "masked"
    /\ FullGrid
    /\ sub_solar_latitude > 0
    /\ twilight_mask[1][1][1] = FullWeight
    /\ twilight_mask[Rows][1][1] < FullWeight
    /\ twilight_mask[Rows][1][1] > 0

\* C14 as stated: the twilight band is 12 degrees wide: every position
\* with zenith angle below 90 is full day and every position with zenith
\* angle above 102 is full night, its pixel the night texture's.
C14_TwilightBandIs12Degrees ==
    /\ Masked =>
          \A r \in GridRows, c \in GridCols, ch \in Channels :
              /\ (SzaOf(r, c) < 90 => twilight_mask[r][c][ch] = FullWeight)
              /\ (SzaOf(r, c) > 102 => twilight_mask[r][c][ch] = 0)
    /\ map_pc = "mapped" =>
          \A r \in GridRows, c \in GridCols, ch \in Channels :
              SzaOf(r, c) > 102 =>
                  map_result[r][c][ch] = night_map[r][c][ch] * FullWeight

\* C18 as stated: a creator whose day and night textures differ in shape
\* does not come out of its constructor: the construction raises
\* DimensionMismatchError and no grid, mask or map is ever computed.
Constructing == map_pc \in {"idle", "args"}
C18_ShapeMismatchFailsAtConstruction ==
    (~Constructing /\ shape(day_map) # shape(night_map)) =>
        /\ map_raised = "DimensionMismatchError"
        /\ sza_input = << >>
        /\ twilight_mask = << >>

(***************************************************************************)
(* Properties: flights that do not take time (C17)                         *)
(***************************************************************************)
\* C17 as stated: when the arrival instant is not after the departure
\* instant the constructor ends by raising InvalidFlightDurationError, and
\* neither a flight path nor a camera path is produced.
C17_NonPositiveDurationRaises ==
    (Duration <= 0 /\ pc \notin {"idle", "new", "counted"}) =>
        /\ pc = "error"
        /\ raised = "InvalidFlightDurationError"
        /\ flight_path = << >>
        /\ camera_path = << >>

(***************************************************************************)
(* Properties of _EscapedString (C20)                                      *)
(***************************************************************************)
\* the characters the docstring lists
DocumentedCharacters ==
    { "|", "&", ":", ";", "(", ")", "<", ">", "~", "*", "@", "?", "!", "$",
      "#", "\"", "`", " ", "'" }

\* a string with one backslash put before every character of `chars`
RECURSIVE Backslashed(_, _)
Backslashed(string, chars) ==
    IF string = << >> THEN << >>
    ELSE (IF Head(string) \in chars THEN << "\\", Head(string) >>
                                   ELSE << Head(string) >>)
            \o Backslashed(Tail(string), chars)

\* C20 as stated: the string made is the content with exactly one backslash
\* before each occurrence of a listed character and every other character
\* unchanged, and `original` is the content.
C20_EscapesListedCharactersOnly ==
    escape_pc = "done" =>
        /\ escaped = Backslashed(content, DocumentedCharacters)
        /\ original = content

(***************************************************************************)
(* Properties of _File and of the video classes (C21)                      *)
(***************************************************************************)
VideoInitDone == video_pc \notin {"idle", "call"}
WrongSuffix == suffix(argument) # << "." >> \o extension(video_class)

C22_BlankCellsAreAllowed ==
    /\ sheet_pc # "raised"
    /\ sheet_pc = "both" =>
          \A column \in Columns :
              IF metadata[column] = Blank
                 THEN /\ column \notin DOMAIN subler_dictionary
                      /\ column \notin DOMAIN handbrake_dictionary
                 ELSE (column \in DOMAIN subler_dictionary)
                          # (column \in DOMAIN handbrake_dictionary)

(***************************************************************************)
(* Properties of terminator_mask's argument (C23)                          *)
(***************************************************************************)
\* C23 as stated: terminator_mask leaves the array it is given as it was,
\* and a second call on that array returns the same mask as the first.
\* (The array left behind holds values no larger than 18, below 90 like the
\* quarter turn at most that the code leaves, so the second call sees day
\* everywhere in the model as in the code.)
C23_TerminatorMaskLeavesArgument ==
    Masked =>
        /\ sza_arr = sza_input
        /\ terminator_mask(sza_arr) = twilight_mask

PixelZenithAngle(r, c) ==
    haversine(sub_solar_latitude, sub_solar_longitude,
              latitudes[Rows + 1 - r], longitudes[c])

\* C25: map() returns the day texture's pixel wherever the solar zenith
\* angle at the pixel's place is at most 90 and the night texture's pixel
\* wherever it is above 108 (pixels in the mask's unit, FullWeight = 1.0).
C25_DayAndNightPixelsInPlace ==
    map_pc = "mapped" /\ FullGrid =>
        \A r \in 1..Rows, c \in 1..Cols, ch \in 1..3 :
            /\ PixelZenithAngle(r, c) <= 90 =>
                  map_result[r][c][ch] = day_map[r][c][ch] * FullWeight
            /\ PixelZenithAngle(r, c) > 108 =>
                  map_result[r][c][ch] = night_map[r][c][ch] * FullWeight

\* a map with the day texture at the north pole and the night texture at
\* the south pole, the two textures differing at both
C25_Witness ==
    /\ map_pc = "mapped"
    /\ FullGrid
    /\ PixelZenithAngle(1, 1) <= 90
    /\ PixelZenithAngle(Rows, 1) > 108
    /\ day_map[1][1] # night_map[1][1]
    /\ day_map[Rows][1] # night_map[Rows][1]
    /\ map_result[1][1] # map_result[Rows][1]

(***************************************************************************)
(* Properties of a second dateline_fix (C26)                               *)
(***************************************************************************)
\* C26: dateline_fix applied to the output of dateline_fix returns that
\* output: the second application shifts no longitude (and leaves the array
\* it was given as it was).
C26_DatelineFixIdempotent ==
    dl_pc = "twice" =>
        /\ dl_again = dateline_fix(dl_input)
        /\ dl_result = dateline_fix(dl_input)
        /\ \A i \in 1..Len(dl_again) :
              Lon(dl_again[i]) \in {Lon(dl_input[i]), Lon(dl_input[i]) + Deg(360)}

\* the first application shifted a longitude and the second one's test
\* finds a longitude beyond 175 again
C26_Witness ==
    /\ dl_pc = "twice"
    /\ dl_again # dl_input
    /\ NearDateline(dl_again)
    /\ \E i \in 1..Len(dl_input) : Lon(dl_input[i]) < 0
    /\ \E i \in 1..Len(dl_input) : Lon(dl_input[i]) > 0

(***************************************************************************)
(* Properties of the last frame's instant (C27)                            *)
(***************************************************************************)
\* C27: for a flight of positive duration the instant of the last frame,
\* departure_time + (n_frames - 1) minutes, is not after the arrival time
\* and less than one minute before it, and it is the arrival time when the
\* duration is a whole number of minutes (instants in seconds).
C27_LastFrameWithinLastMinute ==
    FrameDrawn /\ iterator = n_frames - 1 /\ Duration > 0 =>
        /\ frame_time = departure_time + 60 * (n_frames - 1)
        /\ frame_time <= arrival_time
        /\ arrival_time - frame_time < 60
        /\ (Duration % 60 = 0 => frame_time = arrival_time)

\* the last frame of a flight whose duration is no whole number of minutes
C27_Witness ==
    /\ pc = "saved"
    /\ iterator = n_frames - 1
    /\ n_frames >= 2
    /\ Duration % 60 # 0
    /\ frame_time < arrival_time
    /\ arrival_time - frame_time < 60

(***************************************************************************)
(* Properties of test conversions and of tagging (C28, C29)                *)
(***************************************************************************)
VideoMade == video_pc \in {"constructed", "moved", "ran", "tagged"}
OptionsAsConstructed ==
    VideoConversionOptions(file_path, destination_of(video_class, file_path))

\* C28 as stated: a test conversion leaves converter_options.video.encoder
\* and converter_options.video.speed as they were, so every real conversion
\* of the object builds the command the constructed options give.
C28_TestConvertKeepsSettings ==
    VideoMade =>
        /\ converter_options.video.encoder = OptionsAsConstructed.video.encoder
        /\ converter_options.video.speed = OptionsAsConstructed.video.speed
        /\ \A i \in 1..Len(commands) :
              commands[i].seconds = << >> =>
                  commands[i] =
                      create_command_of_input_options(OptionsAsConstructed)

====
